---- MODULE Spec2Model ----
(***************************************************************************)
(* msn-social-graph.py: the timeline store (per-session marker lists and   *)
(* the global timestamp index), the ingestion loop, the blank-conversation *)
(* backfill, the conversation reconstructor (buildConversationByPost), the *)
(* precedence test (Contact.isFormerContactTo) and the edge synthesis      *)
(* loop.                                                                   *)
(*                                                                         *)
(* Timestamps are the DateTime strings of the logs, compared as Python     *)
(* compares strings.  They are modelled by the integers 1..MaxT, and the   *)
(* synthesized keys "0000-%010d" by the negative integers, which keeps     *)
(* their order: every synthesized key sorts before every real timestamp    *)
(* and the keys increase with the counter.  None is the empty sequence     *)
(* and a value x that may be None is <<x>>.                                *)
(*                                                                         *)
(* The specifications share the variables:                                 *)
(*   Spec       the script: the files are read element by element, the     *)
(*              backfill and the edge synthesis run contact by contact;    *)
(*   SpecStore  addPost called directly on reserved sessions;              *)
(*   SpecRecon  one call of buildConversationByPost run step by step on a  *)
(*              store drawn from the stores ingestion can leave;           *)
(*   SpecPair   two such calls, their steps in any order;                  *)
(*   SpecNested buildConversationByPost called on the store of two nested  *)
(*              sessions;                                                  *)
(*   SpecIngest the ingestion loop on a file whose elements are given,     *)
(*              session ids that were not announced included.              *)
(* An IndexError of getSession ends the script (pc = "crashed").  The tag  *)
(* Invitation takes the branches of Message and is left out of Tags.       *)
(***************************************************************************)
EXTENDS Integers, Sequences, FiniteSets, TLC

\* ----------------------------------------------------------------- bounds
MaxT == 3
MaxSessions == 2
MaxEvents == 3
MaxFiles == 2
MaxAppends == 4
ReconMaxT == 4
MaxMarkers == 6
PairMaxT == 3
PairMarkers == 4
NestMaxT == 6
StreamLen == 4
StreamMaxT == 4

EmailOrder == <<"a", "b">>
Emails == {EmailOrder[i] : i \in 1..Len(EmailOrder)}
MainUser == "m"
Timestamps == 1..MaxT
Tags == {"Join", "Message", "Leave", "InvitationResponse"}
SessionIdInputs == 1..MaxSessions
None == <<>>
Some(x) == <<x>>

VARIABLES
    contacts,           \* the emails of the OrderedDict contacts, in insertion order
    sessions,           \* sessions[e][k]: the posts of session k of contact e
    posts,              \* the global index: post -> sequence of <<email, session id>>
    edges,              \* the global edge list
    pc,                 \* where the script is
    email,              \* the contact of the file being read
    prevTag, prevPost, prevSessionId,   \* the ingestion loop's locals
    nFiles, nEvents,    \* files read so far, events read in this file
    blankConvoCounter,
    idx,                \* position of the loops over contacts.items()
    lastAppend,         \* the last addPost made on the store directly, or None
    calls,              \* the calls of buildConversationByPost run step by step
    file                \* the elements of the file being read, where they are
                        \* fixed in advance

vars == <<contacts, sessions, posts, edges, pc, email, prevTag, prevPost,
          prevSessionId, nFiles, nEvents, blankConvoCounter, idx, lastAppend, calls,
          file>>

\* ------------------------------------------------------- the timeline store
\* The store is the pair of the per-session post lists and the global index.
Store(ss, ps) == [sessions |-> ss, posts |-> ps]

Last(s) == s[Len(s)]

\* addGlobalPost(post, session)
AddGlobalPost(ps, post, session) ==
    IF post \in DOMAIN ps
    THEN [ps EXCEPT ![post] = Append(@, session)]
    ELSE [t \in DOMAIN ps \cup {post} |-> IF t = post THEN <<session>> ELSE ps[t]]

\* addPost with the test "post < self.posts[-1]": a post equal to the last one
\* is stored again.
AddPostLoose(st, e, k, post) ==
    LET own == st.sessions[e][k] IN
    IF Len(own) > 0 /\ post < Last(own)
    THEN st
    ELSE Store([st.sessions EXCEPT ![e][k] = Append(own, post)],
               AddGlobalPost(st.posts, post, <<e, k>>))

\* addPost calling addGlobalPost before the test: a dropped post is indexed.
AddPostIndexedFirst(st, e, k, post) ==
    LET own == st.sessions[e][k] IN
    IF Len(own) > 0 /\ post <= Last(own)
    THEN Store(st.sessions, AddGlobalPost(st.posts, post, <<e, k>>))
    ELSE Store([st.sessions EXCEPT ![e][k] = Append(own, post)],
               AddGlobalPost(st.posts, post, <<e, k>>))

\* Session.addPost(post), on session k of contact e
AddPost(st, e, k, post) ==
    LET own == st.sessions[e][k] IN
    IF Len(own) > 0 /\ post <= Last(own)
    THEN st
    ELSE Store([st.sessions EXCEPT ![e][k] = Append(own, post)],
               AddGlobalPost(st.posts, post, <<e, k>>))

\* Contact.reserveSessions(sessionCount)
ReserveSessions(own, sessionCount) ==
    IF sessionCount > Len(own)
    THEN own \o [i \in 1..(sessionCount - Len(own)) |-> <<>>]
    ELSE own

\* Contact.getSession(sessionId): the position in the list of n sessions that
\* self.sessions[sessionId-1] reads, 0 when Python raises IndexError.
GetSession(n, sessionId) ==
    LET i == sessionId - 1 IN
    IF i >= 0 /\ i < n THEN i + 1
    ELSE IF i < 0 /\ -i <= n THEN n + i + 1
    ELSE 0

\* ------------------------------------------------------ the reconstructor
\* A session is named by <<email, id>>; its posts and its contact:
SessionPosts(session) == sessions[session[1]][session[2]]
FirstPost(session) == SessionPosts(session)[1]
LastPost(session) == Last(SessionPosts(session))
ContactOf(session) == session[1]

\* min(list, key = lambda session: session.posts[0]): Python returns the first
\* of the minimal elements.
MinByFirstPost(list) ==
    list[CHOOSE i \in 1..Len(list) :
            \A j \in 1..Len(list) :
                /\ FirstPost(list[j]) >= FirstPost(list[i])
                /\ (j < i => FirstPost(list[j]) > FirstPost(list[i]))]

\* max(list, key = lambda session: session.posts[-1]): the first of the maximal.
MaxByLastPost(list) ==
    list[CHOOSE i \in 1..Len(list) :
            \A j \in 1..Len(list) :
                /\ LastPost(list[j]) <= LastPost(list[i])
                /\ (j < i => LastPost(list[j]) < LastPost(list[i]))]

\* The walk's test with ">" for ">=": a candidate that starts at the same
\* post does not stop the walk.
WalkStopsStrict(sessionA) ==
    FirstPost(MinByFirstPost(posts[FirstPost(sessionA)])) > FirstPost(sessionA)

\* One round of the backward walk: the session the walk would go to.
WalkCandidate(sessionA) == MinByFirstPost(posts[FirstPost(sessionA)])
WalkStops(sessionA) == FirstPost(WalkCandidate(sessionA)) >= FirstPost(sessionA)

\* The backward walk: the session the forward sweep starts from.
RECURSIVE WalkBackward(_)
WalkBackward(sessionA) ==
    IF WalkStops(sessionA) THEN sessionA ELSE WalkBackward(WalkCandidate(sessionA))

\* The iteration order of a Python set of contacts: the order of their hashes,
\* which are the addresses of the Contact objects and stay the same during a
\* run.  The emails are interchangeable in every specification, so that order
\* is the one of EmailOrder without loss of generality.
IterOrder(set) == SelectSeq(EmailOrder, LAMBDA e : e \in set)

\* intervals is the OrderedDict contact -> Interval, kept as the sequence of
\* its items [contact, firstPost, lastPost], lastPost being None while undefined.
HasInterval(intervals, c) == \E i \in 1..Len(intervals) : intervals[i].contact = c

\* for contactB in addedContacts: ...
RECURSIVE AddContacts(_, _, _)
AddContacts(intervals, added, p) ==
    IF added = <<>> THEN intervals
    ELSE AddContacts(
            IF HasInterval(intervals, Head(added)) THEN intervals
            ELSE Append(intervals,
                        [contact |-> Head(added), firstPost |-> p, lastPost |-> None]),
            Tail(added), p)

\* The deletion without the test "interval.lastPost == None": an interval
\* closed before is closed again.
DeleteContactsAgain(intervals, deleted, prev) ==
    [i \in 1..Len(intervals) |->
        IF intervals[i].contact \in deleted
        THEN [intervals[i] EXCEPT !.lastPost = prev]
        ELSE intervals[i]]

\* for contactB in deletedContacts: ...
DeleteContacts(intervals, deleted, prev) ==
    [i \in 1..Len(intervals) |->
        IF intervals[i].contact \in deleted /\ intervals[i].lastPost = None
        THEN [intervals[i] EXCEPT !.lastPost = prev]
        ELSE intervals[i]]

\* The body of the loop closing the intervals of the deleted contacts at the
\* current post p, not at prevPost.
SweepPostLate(w, p) ==
    IF w.prevPost # None /\ p <= w.prevPost[1] THEN w
    ELSE
        LET presentContacts == {ContactOf(posts[p][i]) : i \in 1..Len(posts[p])}
            addedContacts == presentContacts \ w.prevPresentContacts
            deletedContacts == w.prevPresentContacts \ presentContacts
            reentered == {c \in addedContacts : HasInterval(w.intervals, c)}
            opened == AddContacts(w.intervals, IterOrder(addedContacts), p)
        IN  [w EXCEPT
                !.intervals = DeleteContacts(opened, deletedContacts, Some(p)),
                !.warnedContacts = @ \cup reentered,
                !.prevPost = Some(p),
                !.prevPresentContacts = presentContacts]

\* The state of the forward sweep.
SweepStart(sessionA) ==
    [sessionA |-> sessionA, prevPost |-> None, prevPresentContacts |-> {},
     warnedContacts |-> {}, intervals |-> <<>>]

PresentContacts(p) == {ContactOf(posts[p][i]) : i \in 1..Len(posts[p])}

\* The body of "for p in sessionA.posts".
SweepPost(w, p) ==
    IF w.prevPost # None /\ p <= w.prevPost[1] THEN w
    ELSE
        LET presentContacts == PresentContacts(p)
            addedContacts == presentContacts \ w.prevPresentContacts
            deletedContacts == w.prevPresentContacts \ presentContacts
            reentered == {c \in addedContacts : HasInterval(w.intervals, c)}
            opened == AddContacts(w.intervals, IterOrder(addedContacts), p)
        IN  [w EXCEPT
                !.intervals = DeleteContacts(opened, deletedContacts, w.prevPost),
                !.warnedContacts = @ \cup reentered,
                !.prevPost = Some(p),
                !.prevPresentContacts = presentContacts]

\* The whole loop "for p in sessionA.posts", from position i on.
RECURSIVE SweepSession(_, _)
SweepSession(w, i) ==
    IF i > Len(SessionPosts(w.sessionA)) THEN w
    ELSE SweepSession(SweepPost(w, SessionPosts(w.sessionA)[i]), i + 1)

\* After the loop: the session the sweep would go to, and whether it stops.
SweepCandidate(w) == MaxByLastPost(posts[w.prevPost[1]])
SweepStops(w) == LastPost(SweepCandidate(w)) <= LastPost(w.sessionA)

\* The forward sweep, "while True", from a state whose session is not swept yet.
RECURSIVE SweepForward(_)
SweepForward(w) ==
    LET swept == SweepSession(w, 1) IN
    IF SweepStops(swept) THEN swept
    ELSE SweepForward([swept EXCEPT !.sessionA = SweepCandidate(swept)])

\* Everyone who stayed to the end gets the last post swept.
CloseIntervals(w) ==
    [i \in 1..Len(w.intervals) |->
        IF w.intervals[i].lastPost = None
        THEN [w.intervals[i] EXCEPT !.lastPost = w.prevPost]
        ELSE w.intervals[i]]

\* The participants handed to Conversation(...); lastPost is still <<x>> or None.
Participants(intervals) ==
    [i \in 1..Len(intervals) |->
        [email |-> intervals[i].contact,
         firstPost |-> intervals[i].firstPost,
         lastPost |-> intervals[i].lastPost]]

SeqMin(f) == CHOOSE x \in {f[i] : i \in 1..Len(f)} : \A i \in 1..Len(f) : x <= f[i]
SeqMax(f) == CHOOSE x \in {f[i] : i \in 1..Len(f)} : \A i \in 1..Len(f) : x >= f[i]

\* Conversation.__init__ taking firstPost from the first participant and
\* lastPost from the last one, not the minimum and the maximum.
ConversationByPosition(participants) ==
    [participants |->
        [i \in 1..Len(participants) |->
            [participants[i] EXCEPT !.lastPost = participants[i].lastPost[1]]],
     firstPost |-> participants[1].firstPost,
     lastPost |-> participants[Len(participants)].lastPost[1]]

\* Conversation.__init__: lastPost is read here, so it is a post for every
\* participant (max() of a None raises TypeError).
Conversation(participants) ==
    [participants |->
        [i \in 1..Len(participants) |->
            [participants[i] EXCEPT !.lastPost = participants[i].lastPost[1]]],
     firstPost |-> SeqMin([i \in 1..Len(participants) |-> participants[i].firstPost]),
     lastPost |-> SeqMax([i \in 1..Len(participants) |-> participants[i].lastPost[1]])]

\* buildConversationByPost(post)
BuildConversationByPost(post) ==
    LET w == SweepForward(SweepStart(WalkBackward(posts[post][1])))
    IN  Conversation(Participants(CloseIntervals(w)))

\* isFormerContactTo without the early return and with "<=" at the end: a
\* contact whose first conversation starts no later counts as a former contact.
IsFormerContactToLoose(me, other) ==
    LET myFirstPost == sessions[me][GetSession(Len(sessions[me]), 1)][1]
        hisFirstPost == sessions[other][GetSession(Len(sessions[other]), 1)][1]
    IN  BuildConversationByPost(myFirstPost).firstPost
            <= BuildConversationByPost(hisFirstPost).firstPost

\* isFormerContactTo without the comparison of the two first posts: only the
\* starts of the two first conversations are compared.
IsFormerContactToByConvo(me, other) ==
    LET myFirstPost == sessions[me][GetSession(Len(sessions[me]), 1)][1]
        hisFirstPost == sessions[other][GetSession(Len(sessions[other]), 1)][1]
    IN  BuildConversationByPost(myFirstPost).firstPost
            < BuildConversationByPost(hisFirstPost).firstPost

\* Contact.isFormerContactTo(other); both contacts have a post in session 1.
IsFormerContactTo(me, other) ==
    LET myFirstPost == sessions[me][GetSession(Len(sessions[me]), 1)][1]
        hisFirstPost == sessions[other][GetSession(Len(sessions[other]), 1)][1]
    IN  IF myFirstPost >= hisFirstPost THEN FALSE
        ELSE BuildConversationByPost(myFirstPost).firstPost
                < BuildConversationByPost(hisFirstPost).firstPost

NoSessions == [e \in Emails |-> <<>>]
NoPosts == <<>>

\* ------------------------------------------------------ the ingestion loop
Init ==
    /\ contacts = <<>>
    /\ sessions = NoSessions
    /\ posts = NoPosts
    /\ edges = <<>>
    /\ pc = "files"
    /\ email = None
    /\ prevTag = None
    /\ prevPost = None
    /\ prevSessionId = None
    /\ nFiles = 0
    /\ nEvents = 0
    /\ blankConvoCounter = 0
    /\ idx = 0
    /\ lastAppend = None
    /\ calls = <<>>
    /\ file = <<>>

InSeq(x, s) == \E i \in 1..Len(s) : s[i] = x

\* for filename in os.listdir('.'): the file of contact e is opened
OpenFile(e) ==
    /\ pc = "files"
    /\ nFiles < MaxFiles
    /\ nFiles' = nFiles + 1
    /\ contacts' = IF InSeq(e, contacts) THEN contacts ELSE Append(contacts, e)
    /\ email' = Some(e)
    /\ prevTag' = None
    /\ prevPost' = None
    /\ prevSessionId' = None
    /\ nEvents' = 0
    /\ pc' = "reading"
    /\ UNCHANGED <<sessions, posts, edges, blankConvoCounter, idx, lastAppend, calls, file>>

\* tag == 'Log', the root element of the file, which the parser reports
\* first: contact.reserveSessions(lastSessionId)
LogEvent(lastSessionId) ==
    /\ pc = "reading"
    /\ nEvents = 0
    /\ prevTag = None
    /\ sessions' = [sessions EXCEPT ![email[1]] = ReserveSessions(@, lastSessionId)]
    /\ sessions' # sessions
    /\ UNCHANGED <<contacts, posts, edges, pc, email, prevTag, prevPost, prevSessionId,
                   nFiles, nEvents, blankConvoCounter, idx, lastAppend, calls, file>>

\* The tags the filter of the loop lets through.
PassedTags == {"Join", "Message", "Leave", "Invitation", "InvitatationResponse"}

\* An element with any other tag: continue
SkippedEvent(tag) ==
    /\ pc = "reading"
    /\ nEvents < MaxEvents
    /\ tag \notin PassedTags
    /\ nEvents' = nEvents + 1
    /\ UNCHANGED <<contacts, sessions, posts, edges, pc, email, prevTag, prevPost,
                   prevSessionId, blankConvoCounter, idx, nFiles, lastAppend, calls, file>>

\* One element that passes the filter.  The result of the body of the loop:
\* the store, the three locals, and whether getSession raised IndexError.
IngestEvent(st, e, pTag, pPost, pSid, tag, sessionId, post) ==
    LET n == Len(st.sessions[e])
        savePrev == pPost # None /\ (tag = "Leave" \/ Some(sessionId) # pSid)
        k2 == IF savePrev THEN GetSession(n, pSid[1]) ELSE 0
        st1 == IF savePrev /\ k2 # 0 THEN AddPost(st, e, k2, pPost[1]) ELSE st
        saveThis == pTag = Some("Join") \/ Some(sessionId) # pSid
        k3 == IF saveThis THEN GetSession(n, sessionId) ELSE 0
        st2 == IF saveThis /\ k3 # 0 THEN AddPost(st1, e, k3, post) ELSE st1
    IN  IF savePrev /\ k2 = 0
        THEN [store |-> st, raised |-> TRUE,
              prevTag |-> pTag, prevPost |-> pPost, prevSessionId |-> pSid]
        ELSE IF saveThis /\ k3 = 0
        THEN [store |-> st1, raised |-> TRUE,
              prevTag |-> pTag, prevPost |-> pPost, prevSessionId |-> pSid]
        ELSE [store |-> st2, raised |-> FALSE,
              prevTag |-> Some(tag),
              prevPost |-> IF saveThis THEN None ELSE Some(post),
              prevSessionId |-> Some(sessionId)]

SessionEvent(tag, sessionId, post) ==
    /\ pc = "reading"
    /\ nEvents < MaxEvents
    /\ tag \in PassedTags
    /\ LET r == IngestEvent(Store(sessions, posts), email[1], prevTag, prevPost,
                            prevSessionId, tag, sessionId, post)
       IN  /\ sessions' = r.store.sessions
           /\ posts' = r.store.posts
           /\ prevTag' = r.prevTag
           /\ prevPost' = r.prevPost
           /\ prevSessionId' = r.prevSessionId
           /\ pc' = IF r.raised THEN "crashed" ELSE pc
    /\ nEvents' = nEvents + 1
    /\ UNCHANGED <<contacts, edges, email, nFiles, blankConvoCounter, idx, lastAppend,
                   calls, file>>

\* The end of the file: save the final post of the final session.
EndOfFile ==
    /\ pc = "reading"
    /\ LET e == email[1]
           k == IF prevPost # None
                THEN GetSession(Len(sessions[e]), prevSessionId[1]) ELSE 0
           st == IF prevPost # None /\ k # 0
                 THEN AddPost(Store(sessions, posts), e, k, prevPost[1])
                 ELSE Store(sessions, posts)
       IN  /\ sessions' = st.sessions
           /\ posts' = st.posts
           /\ pc' = IF prevPost # None /\ k = 0 THEN "crashed" ELSE "files"
    /\ email' = None
    /\ prevTag' = None
    /\ prevPost' = None
    /\ prevSessionId' = None
    /\ nEvents' = 0
    /\ UNCHANGED <<contacts, edges, nFiles, blankConvoCounter, idx, lastAppend, calls, file>>

\* os.listdir is exhausted
EndIngestion ==
    /\ pc = "files"
    /\ pc' = "repair"
    /\ idx' = 1
    /\ UNCHANGED <<contacts, sessions, posts, edges, email, prevTag, prevPost,
                   prevSessionId, nFiles, nEvents, blankConvoCounter, lastAppend, calls, file>>

\* ------------------------------------------- the blank conversation backfill
\* A key format that sorts after the real timestamps, such as "9999-%010d".
SynthPostLate(counter) == MaxT + 1 + counter

\* The key without the counter: every blank conversation gets "0000-0000000000".
SynthPostSame(counter) == 0 - Len(EmailOrder)

\* "0000-%010d" % blankConvoCounter: a key before every real timestamp, the
\* keys growing with the counter.
SynthPost(counter) == counter - Len(EmailOrder)

\* One round of "for email, contact in contacts.items()" of the backfill.
RepairStep ==
    /\ pc = "repair"
    /\ idx <= Len(contacts)
    /\ LET e == contacts[idx]
           k == GetSession(Len(sessions[e]), 1)
           blank == k # 0 /\ Len(sessions[e][k]) = 0
           st == IF blank
                 THEN AddPost(Store(sessions, posts), e, k, SynthPost(blankConvoCounter))
                 ELSE Store(sessions, posts)
       IN  /\ sessions' = st.sessions
           /\ posts' = st.posts
           /\ blankConvoCounter' = IF blank THEN blankConvoCounter + 1
                                   ELSE blankConvoCounter
           /\ pc' = IF k = 0 THEN "crashed" ELSE pc
    /\ idx' = idx + 1
    /\ UNCHANGED <<contacts, edges, email, prevTag, prevPost, prevSessionId,
                   nFiles, nEvents, lastAppend, calls, file>>

RepairDone ==
    /\ pc = "repair"
    /\ idx > Len(contacts)
    /\ pc' = "edges"
    /\ idx' = 1
    /\ UNCHANGED <<contacts, sessions, posts, edges, email, prevTag, prevPost,
                   prevSessionId, nFiles, nEvents, blankConvoCounter, lastAppend, calls, file>>

\* --------------------------------------------------------- the edge synthesis
\* The colour rules with green tested before blue: blue overrides green.
EdgeColorBlueLast(firstPostA, lastPostA, firstPostB, lastPostB, convoFirstPost) ==
    LET black == IF firstPostB <= lastPostA THEN "black" ELSE "gray"
        green == IF firstPostB = convoFirstPost THEN "green" ELSE black
    IN  IF firstPostB <= firstPostA /\ lastPostB >= firstPostA THEN "blue" ELSE green

\* The black rule with "<" for "<=".
EdgeColorStrictBlack(firstPostA, lastPostA, firstPostB, lastPostB, convoFirstPost) ==
    LET black == IF firstPostB < lastPostA THEN "black" ELSE "gray"
        blue == IF firstPostB <= firstPostA /\ lastPostB >= firstPostA
                THEN "blue" ELSE black
    IN  IF firstPostB = convoFirstPost THEN "green" ELSE blue

\* The colour of the edge B -> A.
EdgeColor(firstPostA, lastPostA, firstPostB, lastPostB, convoFirstPost) ==
    LET black == IF firstPostB <= lastPostA THEN "black" ELSE "gray"
        blue == IF firstPostB <= firstPostA /\ lastPostB >= firstPostA
                THEN "blue" ELSE black
    IN  IF firstPostB = convoFirstPost THEN "green" ELSE blue

Edge(src, dest, color) == [src |-> src, dest |-> dest, color |-> color]

\* The round with num_edges counting every participant, former contact or
\* not: the fallback edge is never drawn.
IncomingEdgesCounted(emailA) ==
    LET own == sessions[emailA][GetSession(Len(sessions[emailA]), 1)]
        convo == BuildConversationByPost(own[1])
        former == SelectSeq(convo.participants,
                            LAMBDA par : IsFormerContactTo(par.email, emailA))
        drawn == [i \in 1..Len(former) |->
                    Edge(former[i].email, emailA,
                         EdgeColor(own[1], Last(own), former[i].firstPost,
                                   former[i].lastPost, convo.firstPost))]
    IN  IF Len(convo.participants) = 0
        THEN <<Edge(MainUser, emailA, "black")>>
        ELSE drawn

\* The edges one round of "for emailA, contactA in contacts.items()" appends.
IncomingEdges(emailA) ==
    LET own == sessions[emailA][GetSession(Len(sessions[emailA]), 1)]
        firstPostA == own[1]
        lastPostA == Last(own)
        convo == BuildConversationByPost(firstPostA)
        former == SelectSeq(convo.participants,
                            LAMBDA par : IsFormerContactTo(par.email, emailA))
        drawn == [i \in 1..Len(former) |->
                    Edge(former[i].email, emailA,
                         EdgeColor(firstPostA, lastPostA, former[i].firstPost,
                                   former[i].lastPost, convo.firstPost))]
    IN  IF Len(drawn) = 0 THEN <<Edge(MainUser, emailA, "black")>> ELSE drawn

EdgeStep ==
    /\ pc = "edges"
    /\ idx <= Len(contacts)
    /\ edges' = edges \o IncomingEdges(contacts[idx])
    /\ idx' = idx + 1
    /\ UNCHANGED <<contacts, sessions, posts, pc, email, prevTag, prevPost,
                   prevSessionId, nFiles, nEvents, blankConvoCounter, lastAppend, calls, file>>

\* The graph is printed.
EdgesDone ==
    /\ pc = "edges"
    /\ idx > Len(contacts)
    /\ pc' = "done"
    /\ UNCHANGED <<contacts, sessions, posts, edges, email, prevTag, prevPost,
                   prevSessionId, nFiles, nEvents, blankConvoCounter, idx,
                   lastAppend, calls, file>>

Next ==
    \/ \E e \in Emails : OpenFile(e)
    \/ \E n \in 1..MaxSessions : LogEvent(n)
    \/ \E tag \in Tags : SkippedEvent(tag)
    \/ \E tag \in Tags, sid \in SessionIdInputs, post \in Timestamps :
          SessionEvent(tag, sid, post)
    \/ EndOfFile
    \/ EndIngestion
    \/ RepairStep
    \/ RepairDone
    \/ EdgeStep
    \/ EdgesDone

Spec == Init /\ [][Next]_vars

\* ------------------------------------------ the timeline store, used directly
\* Every contact has its sessions reserved and nothing is recorded yet.
ReservedSessions == [e \in Emails |-> ReserveSessions(<<>>, MaxSessions)]

InitStore ==
    /\ contacts = EmailOrder
    /\ sessions = ReservedSessions
    /\ posts = NoPosts
    /\ edges = <<>>
    /\ pc = "store"
    /\ email = None
    /\ prevTag = None
    /\ prevPost = None
    /\ prevSessionId = None
    /\ nFiles = 0
    /\ nEvents = 0
    /\ blankConvoCounter = 0
    /\ idx = 0
    /\ lastAppend = None
    /\ calls = <<>>
    /\ file = <<>>

\* contact.getSession(sessionId).addPost(post); lastAppend keeps the arguments
\* of the call and the length of the session's list before it.
RecordMarker(e, sessionId, post) ==
    /\ pc = "store"
    /\ nEvents < MaxAppends
    /\ LET k == GetSession(Len(sessions[e]), sessionId)
           st == AddPost(Store(sessions, posts), e, k, post)
       IN  /\ k # 0
           /\ sessions' = st.sessions
           /\ posts' = st.posts
           /\ lastAppend' = Some([email |-> e, id |-> k, post |-> post,
                                  before |-> Len(sessions[e][k])])
    /\ nEvents' = nEvents + 1
    /\ UNCHANGED <<contacts, edges, pc, email, prevTag, prevPost, prevSessionId,
                   nFiles, blankConvoCounter, idx, calls, file>>

NextStore ==
    \E e \in Emails, sid \in SessionIdInputs, post \in Timestamps :
        RecordMarker(e, sid, post)

SpecStore == InitStore /\ [][NextStore]_vars

\* ------------------------------------ the reconstructor, run step by step
\* The stores a call is made on: every contact has MaxSessions sessions, each
\* a strictly increasing list of posts of 1..ReconMaxT, session 1 not empty
\* (the backfill is done), at most MaxMarkers posts in all, and under every
\* post of the index the sessions that recorded it, in the order the files
\* were read.
ReconTimestamps == 1..ReconMaxT
AllSessions == {<<e, k>> : e \in Emails, k \in 1..MaxSessions}
Cells == {<<s, t>> : s \in AllSessions, t \in ReconTimestamps}
Markings ==
    {m \in SUBSET Cells :
        /\ Cardinality(m) <= MaxMarkers
        /\ \A e \in Emails : \E t \in ReconTimestamps : <<<<e, 1>>, t>> \in m}

\* The order of the appends under a post: the contacts in the order of their
\* files, EmailOrder or its reverse, and the sessions of a contact by
\* ascending or by descending id.
Reverse(list) == [i \in 1..Len(list) |-> list[Len(list) + 1 - i]]
ContactOrders == {EmailOrder, Reverse(EmailOrder)}
IdOrders == {[k \in 1..MaxSessions |-> k], [k \in 1..MaxSessions |-> MaxSessions + 1 - k]}
SessionOrder(cs, ids) ==
    [n \in 1..(Len(cs) * MaxSessions) |->
        <<cs[((n - 1) \div MaxSessions) + 1], ids[((n - 1) % MaxSessions) + 1]>>]

SortedSeq(set) ==
    [i \in 1..Cardinality(set) |->
        CHOOSE t \in set : Cardinality({u \in set : u < t}) = i - 1]

SessionsOf(m) ==
    [e \in Emails |->
        [k \in 1..MaxSessions |-> SortedSeq({t \in ReconTimestamps : <<<<e, k>>, t>> \in m})]]

PostsOf(m, order) ==
    [t \in {c[2] : c \in m} |-> SelectSeq(order, LAMBDA s : <<s, t>> \in m)]

InitRecon ==
    /\ \E m \in Markings, cs \in ContactOrders, ids \in IdOrders :
          /\ sessions = SessionsOf(m)
          /\ posts = PostsOf(m, SessionOrder(cs, ids))
          /\ contacts = cs
    /\ edges = <<>>
    /\ pc = "edges"
    /\ email = None
    /\ prevTag = None
    /\ prevPost = None
    /\ prevSessionId = None
    /\ nFiles = 0
    /\ nEvents = 0
    /\ blankConvoCounter = 0
    /\ idx = 1
    /\ lastAppend = None
    /\ calls = <<>>
    /\ file = <<>>

CallIds == {1}
Running(c) == c \in DOMAIN calls

\* The entry taking any of the sessions recorded at the post, as it would with
\* posts[post] kept as a set.
CallStartAny(c, post) ==
    /\ pc = "edges"
    /\ ~Running(c)
    /\ post \in DOMAIN posts
    /\ \E n \in 1..Len(posts[post]) :
          calls' = [d \in DOMAIN calls \cup {c} |->
                       IF d = c
                       THEN [pc |-> "walk", post |-> post, i |-> 0,
                             w |-> SweepStart(posts[post][n]),
                             walked |-> 0, adopted |-> 0, convo |-> None]
                       ELSE calls[d]]
    /\ UNCHANGED <<contacts, sessions, posts, edges, pc, email, prevTag, prevPost,
                   prevSessionId, nFiles, nEvents, blankConvoCounter, idx, lastAppend, file>>

\* The entry with intervals kept in one dictionary for all calls: a call
\* starts with the intervals another call has collected so far.
CallStartShared(c, post) ==
    /\ pc = "edges"
    /\ ~Running(c)
    /\ post \in DOMAIN posts
    /\ calls' = [d \in DOMAIN calls \cup {c} |->
                    IF d = c
                    THEN [pc |-> "walk", post |-> post, i |-> 0,
                          w |-> [SweepStart(posts[post][1]) EXCEPT
                                    !.intervals =
                                        IF DOMAIN calls = {} THEN <<>>
                                        ELSE calls[CHOOSE o \in DOMAIN calls : TRUE].w.intervals],
                          walked |-> 0, adopted |-> 0, convo |-> None]
                    ELSE calls[d]]
    /\ UNCHANGED <<contacts, sessions, posts, edges, pc, email, prevTag, prevPost,
                   prevSessionId, nFiles, nEvents, blankConvoCounter, idx, lastAppend, file>>

\* buildConversationByPost(post) is entered: sessionA = posts[post][0]
CallStart(c, post) ==
    /\ pc = "edges"
    /\ ~Running(c)
    /\ post \in DOMAIN posts
    /\ calls' = [d \in DOMAIN calls \cup {c} |->
                    IF d = c
                    THEN [pc |-> "walk", post |-> post, i |-> 0,
                          w |-> SweepStart(posts[post][1]),
                          walked |-> 0, adopted |-> 0, convo |-> None]
                    ELSE calls[d]]
    /\ UNCHANGED <<contacts, sessions, posts, edges, pc, email, prevTag, prevPost,
                   prevSessionId, nFiles, nEvents, blankConvoCounter, idx, lastAppend, file>>

StoreUnchanged ==
    UNCHANGED <<contacts, sessions, posts, edges, pc, email, prevTag, prevPost,
                prevSessionId, nFiles, nEvents, blankConvoCounter, idx, lastAppend, file>>

\* The backward walk goes to an older session.
WalkAdopt(c) ==
    /\ Running(c)
    /\ calls[c].pc = "walk"
    /\ ~WalkStops(calls[c].w.sessionA)
    /\ calls' = [calls EXCEPT ![c].w.sessionA = WalkCandidate(@),
                              ![c].walked = @ + 1]
    /\ StoreUnchanged

\* The backward walk breaks; the forward sweep starts on its session.
WalkEnd(c) ==
    /\ Running(c)
    /\ calls[c].pc = "walk"
    /\ WalkStops(calls[c].w.sessionA)
    /\ calls' = [calls EXCEPT ![c].pc = "sweep", ![c].i = 1]
    /\ StoreUnchanged

\* One round of "for p in sessionA.posts".
SweepStep(c) ==
    /\ Running(c)
    /\ calls[c].pc = "sweep"
    /\ calls[c].i <= Len(SessionPosts(calls[c].w.sessionA))
    /\ calls' = [calls EXCEPT
                    ![c].w = SweepPost(@, SessionPosts(calls[c].w.sessionA)[calls[c].i]),
                    ![c].i = @ + 1]
    /\ StoreUnchanged

\* The session is swept and the sweep goes to a session that lasts longer.
SweepAdopt(c) ==
    /\ Running(c)
    /\ calls[c].pc = "sweep"
    /\ calls[c].i > Len(SessionPosts(calls[c].w.sessionA))
    /\ ~SweepStops(calls[c].w)
    /\ calls' = [calls EXCEPT ![c].w.sessionA = SweepCandidate(calls[c].w),
                              ![c].i = 1,
                              ![c].adopted = @ + 1]
    /\ StoreUnchanged

\* The session is swept and the sweep breaks.
SweepEnd(c) ==
    /\ Running(c)
    /\ calls[c].pc = "sweep"
    /\ calls[c].i > Len(SessionPosts(calls[c].w.sessionA))
    /\ SweepStops(calls[c].w)
    /\ calls' = [calls EXCEPT ![c].pc = "close"]
    /\ StoreUnchanged

\* The open intervals are closed and the Conversation is returned.
CallReturn(c) ==
    /\ Running(c)
    /\ calls[c].pc = "close"
    /\ calls' = [calls EXCEPT
                    ![c].w.intervals = CloseIntervals(calls[c].w),
                    ![c].convo = Some(Conversation(Participants(CloseIntervals(calls[c].w)))),
                    ![c].pc = "done"]
    /\ StoreUnchanged

CallStep(c) ==
    \/ \E post \in ReconTimestamps : CallStart(c, post)
    \/ WalkAdopt(c)
    \/ WalkEnd(c)
    \/ SweepStep(c)
    \/ SweepAdopt(c)
    \/ SweepEnd(c)
    \/ CallReturn(c)

NextRecon == CallStep(1)

SpecRecon == InitRecon /\ [][NextRecon]_vars

\* ------------------------------------------ two calls of the reconstructor
\* The stores of InitRecon with the posts of 1..PairMaxT and at most
\* PairMarkers of them; two calls take their steps in any order.
PairMarkings ==
    {m \in SUBSET {c \in Cells : c[2] <= PairMaxT} :
        /\ Cardinality(m) <= PairMarkers
        /\ \A e \in Emails : \E t \in ReconTimestamps : <<<<e, 1>>, t>> \in m}

InitPair ==
    /\ \E m \in PairMarkings, cs \in ContactOrders, ids \in IdOrders :
          /\ sessions = SessionsOf(m)
          /\ posts = PostsOf(m, SessionOrder(cs, ids))
          /\ contacts = cs
    /\ edges = <<>>
    /\ pc = "edges"
    /\ email = None
    /\ prevTag = None
    /\ prevPost = None
    /\ prevSessionId = None
    /\ nFiles = 0
    /\ nEvents = 0
    /\ blankConvoCounter = 0
    /\ idx = 1
    /\ lastAppend = None
    /\ calls = <<>>
    /\ file = <<>>

PairCallIds == {1, 2}

NextPair == \E c \in PairCallIds : CallStep(c)

SpecPair == InitPair /\ [][NextPair]_vars

\* ------------------------------------------- the reconstructor, called whole
\* The nested store: contact A has one session with the posts a0 < b0 < b1 < a1
\* and contact B one session with the posts b0 < b1, recorded file by file.
NestedTimestamps == 1..NestMaxT

\* addPost called for every post of the list, in order, on session k of e.
RECURSIVE AddPosts(_, _, _, _)
AddPosts(st, e, k, list) ==
    IF list = <<>> THEN st
    ELSE AddPosts(AddPost(st, e, k, Head(list)), e, k, Tail(list))

InitNested ==
    /\ \E a0, b0, b1, a1 \in NestedTimestamps : \E A, B \in Emails : \E outerFirst \in BOOLEAN :
          /\ a0 < b0 /\ b0 < b1 /\ b1 < a1
          /\ A # B
          /\ LET empty == Store([e \in Emails |-> ReserveSessions(<<>>, 1)], NoPosts)
                 outer == <<a0, b0, b1, a1>>
                 inner == <<b0, b1>>
                 st == IF outerFirst
                       THEN AddPosts(AddPosts(empty, A, 1, outer), B, 1, inner)
                       ELSE AddPosts(AddPosts(empty, B, 1, inner), A, 1, outer)
             IN  /\ sessions = st.sessions
                 /\ posts = st.posts
                 /\ contacts = IF outerFirst THEN <<A, B>> ELSE <<B, A>>
    /\ edges = <<>>
    /\ pc = "edges"
    /\ email = None
    /\ prevTag = None
    /\ prevPost = None
    /\ prevSessionId = None
    /\ nFiles = 0
    /\ nEvents = 0
    /\ blankConvoCounter = 0
    /\ idx = 1
    /\ lastAppend = None
    /\ calls = <<>>
    /\ file = <<>>

\* convo = buildConversationByPost(post), from the call to the return.
Reconstruct(c, post) ==
    /\ pc = "edges"
    /\ ~Running(c)
    /\ post \in DOMAIN posts
    /\ calls' = [d \in DOMAIN calls \cup {c} |->
                    IF d = c
                    THEN [pc |-> "done", post |-> post,
                          convo |-> Some(BuildConversationByPost(post))]
                    ELSE calls[d]]
    /\ StoreUnchanged

NextNested == \E post \in NestedTimestamps : Reconstruct(1, post)

SpecNested == InitNested /\ [][NextNested]_vars

\* --------------------------------------------- the ingestion of a given file
\* The files: the root element Log, then up to StreamLen elements with a
\* SessionID and a DateTime, the DateTimes strictly increasing; the session
\* ids include ids the Log element does not announce.
StreamTimestamps == 1..StreamMaxT
StreamSessionIds == 0..(MaxSessions + 1)
LogElement(lastSessionId) == [tag |-> "Log", lastSessionId |-> lastSessionId]
SessionElement(tag, sessionId, post) ==
    [tag |-> tag, sessionId |-> sessionId, post |-> post]
Files(n) ==
    {<<LogElement(last)>> \o
        [i \in 1..n |-> SessionElement(ev[i][1], ev[i][2], SortedSeq(ts)[i])] :
        last \in 1..MaxSessions,
        ev \in [1..n -> Tags \X StreamSessionIds],
        ts \in {S \in SUBSET StreamTimestamps : Cardinality(S) = n}}

\* The locals of the loop over the elements, with the store.
ReadStart(st) ==
    [store |-> st, raised |-> FALSE,
     prevTag |-> None, prevPost |-> None, prevSessionId |-> None]

\* The body of "for action, elem in etree.iterparse(...)" on one element.
ReadElem(r, e, elem) ==
    IF elem.tag = "Log"
    THEN [r EXCEPT !.store.sessions[e] = ReserveSessions(@, elem.lastSessionId)]
    ELSE IF elem.tag \notin PassedTags
    THEN r
    ELSE IngestEvent(r.store, e, r.prevTag, r.prevPost, r.prevSessionId,
                     elem.tag, elem.sessionId, elem.post)

\* The loop over the elements, stopped by an IndexError.
RECURSIVE ReadElems(_, _, _)
ReadElems(r, e, elems) ==
    IF elems = <<>> \/ r.raised THEN r
    ELSE ReadElems(ReadElem(r, e, Head(elems)), e, Tail(elems))

\* After the loop: save the final post of the final session.
SaveFinalPost(r, e) ==
    LET k == IF r.prevPost # None
             THEN GetSession(Len(r.store.sessions[e]), r.prevSessionId[1]) ELSE 0
    IN  IF r.raised \/ r.prevPost = None THEN r
        ELSE IF k = 0 THEN [r EXCEPT !.raised = TRUE]
        ELSE [r EXCEPT !.store = AddPost(r.store, e, k, r.prevPost[1])]

\* The whole file of contact e read on the store st.
ReadFile(st, e, elems) == SaveFinalPost(ReadElems(ReadStart(st), e, elems), e)

\* The file of a contact has just been opened.
InitIngest ==
    /\ \E e \in Emails :
          /\ contacts = <<e>>
          /\ email = Some(e)
    /\ \E n \in 0..StreamLen : file \in Files(n)
    /\ sessions = NoSessions
    /\ posts = NoPosts
    /\ edges = <<>>
    /\ pc = "reading"
    /\ prevTag = None
    /\ prevPost = None
    /\ prevSessionId = None
    /\ nFiles = 1
    /\ nEvents = 0
    /\ blankConvoCounter = 0
    /\ idx = 0
    /\ lastAppend = None
    /\ calls = <<>>

\* The next element of the file is read.
ReadElement ==
    /\ pc = "reading"
    /\ nEvents < Len(file)
    /\ LET r == ReadElem([store |-> Store(sessions, posts), raised |-> FALSE,
                          prevTag |-> prevTag, prevPost |-> prevPost,
                          prevSessionId |-> prevSessionId],
                         email[1], file[nEvents + 1])
       IN  /\ sessions' = r.store.sessions
           /\ posts' = r.store.posts
           /\ prevTag' = r.prevTag
           /\ prevPost' = r.prevPost
           /\ prevSessionId' = r.prevSessionId
           /\ pc' = IF r.raised THEN "crashed" ELSE pc
    /\ nEvents' = nEvents + 1
    /\ UNCHANGED <<contacts, edges, email, nFiles, blankConvoCounter, idx, lastAppend,
                   calls, file>>

\* The file has no more elements.
EndOfStream == nEvents = Len(file) /\ EndOfFile

NextIngest == ReadElement \/ EndOfStream

SpecIngest == InitIngest /\ [][NextIngest]_vars

\* ============================================================== the claims
Increasing(list) == \A i \in 1..(Len(list) - 1) : list[i] < list[i + 1]
SessionsIncreasing ==
    \A e \in Emails : \A k \in 1..Len(sessions[e]) : Increasing(sessions[e][k])

\* The append recorded in the next state was one addPost must reject.
RejectedAppend ==
    /\ lastAppend' # None
    /\ LET own == sessions[lastAppend'[1].email][lastAppend'[1].id]
       IN  Len(own) > 0 /\ lastAppend'[1].post <= Last(own)

\* C1: after any sequence of appends every session's marker list is strictly
\* increasing, and an append whose timestamp is <= the session's last marker
\* changes neither the session lists nor the global index.
C1_Monotonic ==
    /\ []SessionsIncreasing
    /\ [][RejectedAppend => (sessions' = sessions /\ posts' = posts)]_vars

\* A rejected append has happened: the last call left the list as long as it
\* was, with a post strictly before the last one of a list of two posts.
C1_Witness ==
    /\ lastAppend # None
    /\ LET a == lastAppend[1]
       IN  /\ a.before = 2
           /\ Len(sessions[a.email][a.id]) = 2
           /\ a.post < Last(sessions[a.email][a.id])
           /\ a.post \in DOMAIN posts

\* The participants of a Conversation as a set of triples.
ParticipantSet(convo) ==
    {<<convo.participants[i].email, convo.participants[i].firstPost,
       convo.participants[i].lastPost>> : i \in 1..Len(convo.participants)}

PostsOfSession(e, k) == {sessions[e][k][i] : i \in 1..Len(sessions[e][k])}

\* C2: reconstructing from any two markers of one and the same session yields
\* the same participants with the same intervals.
C2_SameConversation ==
    pc = "done" =>
        \A e \in Emails : \A k \in 1..Len(sessions[e]) :
            \A t1, t2 \in PostsOfSession(e, k) :
                ParticipantSet(BuildConversationByPost(t1))
                    = ParticipantSet(BuildConversationByPost(t2))

HasMarker(e, t) == \E k \in 1..Len(sessions[e]) : t \in PostsOfSession(e, k)

Returned(c) == Running(c) /\ calls[c].pc = "done"

\* C3: in every Conversation returned, every participant has firstPost <=
\* lastPost, a firstPost at which the contact recorded a marker, and a lastPost
\* that is defined and is a marker of the contact or the last post swept.
C3_Intervals ==
    \A c \in CallIds : Returned(c) =>
        LET convo == calls[c].convo[1] IN
        /\ Len(convo.participants) = Len(calls[c].w.intervals)
        /\ Len(convo.participants) > 0
        /\ \A i \in 1..Len(calls[c].w.intervals) :
              calls[c].w.intervals[i].lastPost # None
        /\ \A i \in 1..Len(convo.participants) :
              LET par == convo.participants[i] IN
              /\ par.firstPost <= par.lastPost
              /\ HasMarker(par.email, par.firstPost)
              /\ \/ HasMarker(par.email, par.lastPost)
                 \/ par.lastPost = calls[c].w.prevPost[1]

\* A call has returned a participant whose interval was closed before the end
\* of the sweep and one who stayed to the end.
C3_Witness ==
    /\ Returned(1)
    /\ \E i, j \in 1..Len(calls[1].convo[1].participants) :
          /\ calls[1].convo[1].participants[i].lastPost < calls[1].w.prevPost[1]
          /\ calls[1].convo[1].participants[j].lastPost = calls[1].w.prevPost[1]
          /\ calls[1].convo[1].participants[j].firstPost
                < calls[1].convo[1].participants[j].lastPost

\* One step of a call in which the backward walk, or the forward sweep, went
\* to another session.
WalkMoved(c) == Running(c) /\ calls'[c].walked > calls[c].walked
SweepMoved(c) == Running(c) /\ calls'[c].adopted > calls[c].adopted

\* C4: the reconstructor terminates: an adoption of the backward walk moves
\* the session's first marker strictly earlier, an adoption of the forward
\* sweep moves the session's last marker strictly later, so each loop makes
\* fewer adoptions than there are timestamps in the index, and a call that has
\* not returned can always take its next step.
C4_Terminates ==
    /\ [][\A c \in CallIds :
            /\ WalkMoved(c) =>
                  FirstPost(calls'[c].w.sessionA) < FirstPost(calls[c].w.sessionA)
            /\ SweepMoved(c) =>
                  LastPost(calls'[c].w.sessionA) > LastPost(calls[c].w.sessionA)]_vars
    /\ [](\A c \in CallIds : Running(c) =>
            /\ calls[c].walked < Cardinality(DOMAIN posts)
            /\ calls[c].adopted < Cardinality(DOMAIN posts)
            /\ calls[c].i <= ReconMaxT + 1
            /\ (calls[c].pc # "done" => ENABLED CallStep(c)))

\* A call has returned after adoptions in both loops.
C4_Witness == Returned(1) /\ calls[1].walked >= 1 /\ calls[1].adopted >= 1

IntervalOf(intervals, e) ==
    intervals[CHOOSE i \in 1..Len(intervals) : intervals[i].contact = e]

\* C9: once a contact's interval is closed it never changes for the rest of
\* the sweep, re-entry included: it is closed at the last post swept before
\* the contact's first absence, no second interval is opened, and the contact
\* is returned exactly once.
C9_ClosedStays ==
    [][\A c \in CallIds : (Running(c) /\ calls[c].pc # "done") =>
        LET old == calls[c].w.intervals
            new == calls'[c].w.intervals
        IN  /\ Len(new) >= Len(old)
            /\ \A i \in 1..Len(old) :
                  /\ new[i].contact = old[i].contact
                  /\ new[i].firstPost = old[i].firstPost
                  /\ old[i].lastPost # None => new[i].lastPost = old[i].lastPost
                  /\ (calls[c].pc = "sweep" /\ old[i].lastPost = None
                        /\ new[i].lastPost # None) =>
                        /\ new[i].lastPost = calls[c].w.prevPost
                        /\ old[i].contact \in calls[c].w.prevPresentContacts
                        /\ old[i].contact \notin calls'[c].w.prevPresentContacts
            /\ \A i, j \in 1..Len(new) : new[i].contact = new[j].contact => i = j
            /\ calls'[c].pc = "done" =>
                  /\ Len(calls'[c].convo[1].participants) = Len(new)
                  /\ \A i \in 1..Len(new) :
                        /\ calls'[c].convo[1].participants[i].email = new[i].contact
                        /\ calls'[c].convo[1].participants[i].firstPost = new[i].firstPost
                        /\ <<calls'[c].convo[1].participants[i].lastPost>> = new[i].lastPost
                  /\ \A i \in 1..Len(old) : old[i].lastPost # None =>
                        <<calls'[c].convo[1].participants[i].lastPost>> = old[i].lastPost]_vars

\* A call has returned in which a contact left, re-entered and left again:
\* it was warned about and is absent at the last post swept; its interval still
\* ends before its re-entry.
C9_Witness ==
    /\ Returned(1)
    /\ \E e \in calls[1].w.warnedContacts :
          /\ e \notin calls[1].w.prevPresentContacts
          /\ \E t \in ReconTimestamps :
                /\ HasMarker(e, t)
                /\ t > IntervalOf(calls[1].w.intervals, e).lastPost[1]
                /\ t < calls[1].w.prevPost[1]

\* ------------------------------------------------- the claims on the edges
\* The predecessor edges are those not drawn from the main user.
IsPredecessorEdge(edge) == edge.src # MainUser
FirstSession(e) == sessions[e][1]
FirstConvo(e) == BuildConversationByPost(FirstSession(e)[1])
IsParticipant(convo, e) ==
    \E i \in 1..Len(convo.participants) : convo.participants[i].email = e
ParticipantOf(convo, e) ==
    convo.participants[CHOOSE i \in 1..Len(convo.participants) :
                           convo.participants[i].email = e]

\* The black and the blue rule for the edge B -> A, A having entered at
\* startA and left at endA.
BlackRule(parB, endA) == parB.firstPost <= endA
BlueRule(parB, startA) == parB.firstPost <= startA /\ parB.lastPost >= startA
GreenRule(parB, convo) == parB.firstPost = convo.firstPost

\* The colour of the edge says what the two rules gave, for A's span (startA, endA).
RulesAgainst(edge, convo, startA, endA) ==
    LET parB == ParticipantOf(convo, edge.src) IN
    /\ edge.color # "gray" <=> BlackRule(parB, endA)
    /\ BlueRule(parB, startA) => edge.color \in {"blue", "green"}
    /\ edge.color = "blue" => BlueRule(parB, startA)

\* C5 as claimed: the black and blue rules of every predecessor edge B -> A are
\* evaluated against A's own participant interval in the conversation
\* reconstructed from A's first marker.
C5_AgainstInterval ==
    \A i \in 1..Len(edges) :
        (IsPredecessorEdge(edges[i])
            /\ IsParticipant(FirstConvo(edges[i].dest), edges[i].dest)) =>
        LET convo == FirstConvo(edges[i].dest)
            parA == ParticipantOf(convo, edges[i].dest)
        IN  RulesAgainst(edges[i], convo, parA.firstPost, parA.lastPost)

\* C5 (amended): the black and blue rules of every predecessor edge B -> A are
\* evaluated against the first and the last marker of A's session 1: the edge
\* is at least black exactly when B's interval start <= the last marker of A's
\* session 1, and the blue rule fires exactly when B's interval start <= A's
\* first marker <= B's interval end.
C5_AgainstFirstSession ==
    \A i \in 1..Len(edges) :
        IsPredecessorEdge(edges[i]) =>
        LET convo == FirstConvo(edges[i].dest)
            own == FirstSession(edges[i].dest)
        IN  /\ IsParticipant(convo, edges[i].src)
            /\ RulesAgainst(edges[i], convo, own[1], Last(own))

\* A blue edge B -> A is drawn where A's participant interval starts before
\* A's first marker, and B joined after that start.
C5_Witness ==
    /\ pc = "done"
    /\ \E i \in 1..Len(edges) :
          /\ IsPredecessorEdge(edges[i])
          /\ edges[i].color = "blue"
          /\ IsParticipant(FirstConvo(edges[i].dest), edges[i].dest)
          /\ ParticipantOf(FirstConvo(edges[i].dest), edges[i].dest).firstPost
                < FirstSession(edges[i].dest)[1]
          /\ ParticipantOf(FirstConvo(edges[i].dest), edges[i].src).firstPost
                > ParticipantOf(FirstConvo(edges[i].dest), edges[i].dest).firstPost

\* C6: the colours follow the priority green > blue > black > gray: a
\* predecessor edge is green exactly when its source's interval starts at the
\* conversation's firstPost, blue when the blue rule fires and the green one
\* does not, black when only the black rule fires, gray when none does.
C6_Priority ==
    \A i \in 1..Len(edges) :
        IsPredecessorEdge(edges[i]) =>
        LET convo == FirstConvo(edges[i].dest)
            own == FirstSession(edges[i].dest)
            parB == ParticipantOf(convo, edges[i].src)
        IN  edges[i].color =
                IF GreenRule(parB, convo) THEN "green"
                ELSE IF BlueRule(parB, own[1]) THEN "blue"
                ELSE IF BlackRule(parB, Last(own)) THEN "black"
                ELSE "gray"

\* A green edge is drawn whose source also satisfies the blue rule.
C6_Witness ==
    /\ pc = "done"
    /\ \E i \in 1..Len(edges) :
          /\ IsPredecessorEdge(edges[i])
          /\ edges[i].color = "green"
          /\ BlueRule(ParticipantOf(FirstConvo(edges[i].dest), edges[i].src),
                      FirstSession(edges[i].dest)[1])

EdgesInto(e, predecessor) ==
    {i \in 1..Len(edges) :
        edges[i].dest = e /\ IsPredecessorEdge(edges[i]) = predecessor}

\* C7: for every contact A the edge synthesis has processed, exactly one
\* fallback edge M -> A, black, is drawn if and only if no predecessor edge
\* B -> A is drawn; so every contact has an incoming edge in the final list.
C7_Fallback ==
    pc \in {"edges", "done"} =>
        \A n \in 1..Len(contacts) : n < idx =>
            LET into == EdgesInto(contacts[n], TRUE)
                fallback == EdgesInto(contacts[n], FALSE)
            IN  /\ Cardinality(fallback) <= 1
                /\ Cardinality(fallback) = 1 <=> into = {}
                /\ \A i \in fallback : edges[i].color = "black"
                /\ into \cup fallback # {}

\* The graph is printed with a fallback edge into one contact and a
\* predecessor edge into another.
C7_Witness ==
    /\ pc = "done"
    /\ \E a, b \in Emails :
          /\ EdgesInto(a, TRUE) # {} /\ EdgesInto(a, FALSE) = {}
          /\ EdgesInto(b, TRUE) = {} /\ EdgesInto(b, FALSE) # {}

ContactSet == {contacts[i] : i \in 1..Len(contacts)}

\* C8: isFormerContactTo is antisymmetric and irreflexive on the contacts,
\* whose session 1 is not empty once the backfill is done.
C8_Antisymmetric ==
    pc = "done" =>
        \A a, b \in ContactSet :
            /\ ~(IsFormerContactTo(a, b) /\ IsFormerContactTo(b, a))
            /\ ~IsFormerContactTo(a, a)

\* Two contacts whose first conversation is the same one, one of them a
\* former contact to no one, and the relation not empty elsewhere: a is a
\* former contact to b.
C8_Witness ==
    /\ pc = "done"
    /\ \E a, b \in ContactSet :
          /\ a # b
          /\ IsFormerContactTo(a, b)
          /\ FirstConvo(a).firstPost < FirstConvo(b).firstPost

\* The contact got the synthesized key as the one post of its session 1.
HasPlaceholder(e) == FirstSession(e)[1] \notin Timestamps

\* C10 as claimed: between a contact C with a placeholder and a contact A whose
\* first marker is real, isFormerContactTo is false in both directions.
C10_NeverFormer ==
    pc = "done" =>
        \A c, a \in ContactSet : (HasPlaceholder(c) /\ ~HasPlaceholder(a)) =>
            /\ ~IsFormerContactTo(c, a)
            /\ ~IsFormerContactTo(a, c)

\* C10 (amended): the contact C with the placeholder is a former contact to
\* every contact A whose first marker is real, and A is not one to C.
C10_PlaceholderIsFormer ==
    pc = "done" =>
        \A c, a \in ContactSet : (HasPlaceholder(c) /\ ~HasPlaceholder(a)) =>
            /\ Len(FirstSession(c)) = 1
            /\ IsFormerContactTo(c, a)
            /\ ~IsFormerContactTo(a, c)

\* A contact with a placeholder and posts in session 2, beside a contact with
\* a real first marker.
C10_Witness ==
    /\ pc = "done"
    /\ \E c, a \in ContactSet :
          /\ HasPlaceholder(c)
          /\ ~HasPlaceholder(a)
          /\ Len(sessions[c]) = 2
          /\ Len(sessions[c][2]) > 0

\* ------------------------------------------------ the claims on the nested store
\* The contact of the nested store with the four posts, and the one with two.
OuterContact == CHOOSE e \in Emails : Len(sessions[e][1]) = 4
InnerContact == CHOOSE e \in Emails : Len(sessions[e][1]) = 2

\* C11: in the store where A has one session a0 < b0 < b1 < a1 and B one
\* session b0 < b1 and nothing else is recorded, reconstructing from any of
\* the four timestamps yields exactly the participants A(a0, a1) and B(b0, b1)
\* and the conversation bounds (a0, a1).
C11_Nested ==
    LET outer == sessions[OuterContact][1]
        inner == sessions[InnerContact][1]
    IN  /\ Len(outer) = 4 /\ Len(inner) = 2
        /\ inner[1] = outer[2] /\ inner[2] = outer[3]
        /\ DOMAIN posts = {outer[i] : i \in 1..4}
        /\ \A c \in CallIds : Returned(c) =>
              LET convo == calls[c].convo[1] IN
              /\ calls[c].post \in DOMAIN posts
              /\ Len(convo.participants) = 2
              /\ ParticipantSet(convo) =
                    {<<OuterContact, outer[1], outer[4]>>,
                     <<InnerContact, inner[1], inner[2]>>}
              /\ convo.firstPost = outer[1]
              /\ convo.lastPost = outer[4]

\* A call from b0 has returned in the store where B's file was read first, so
\* that the call started on B's session and walked back to A's.
C11_Witness ==
    /\ Returned(1)
    /\ calls[1].post = sessions[InnerContact][1][1]
    /\ posts[calls[1].post][1] = <<InnerContact, 1>>
    /\ Len(calls[1].convo[1].participants) = 2

\* ------------------------------------------------- the claims on ingestion
\* The contact whose file is read, and the sessions the Log element announced.
FileContact == contacts[1]
Announced(sessionId) == sessionId \in 1..Len(sessions[FileContact])

\* The i-th element of the file has a SessionID and its tag passes the filter.
IsSessionEvent(i) == file[i].tag \in PassedTags

\* C12: an event that references a session id never announced for its contact
\* (ids <= 0 as well as ids > N) stops ingestion with a fatal error and
\* records no marker in any session.
C12_UnannouncedIsFatal ==
    pc \in {"reading", "crashed"} =>
        \A i \in 1..nEvents :
            (IsSessionEvent(i) /\ ~Announced(file[i].sessionId)) =>
                /\ pc = "crashed"
                /\ \A k \in 1..Len(sessions[FileContact]) :
                      file[i].post \notin PostsOfSession(FileContact, k)

C14_Independent ==
    /\ [][sessions' = sessions /\ posts' = posts /\ contacts' = contacts]_vars
    /\ [](\A c \in PairCallIds : Returned(c) =>
            calls[c].convo[1] = BuildConversationByPost(calls[c].post))

\* Two calls with different anchors are both in the middle of their sweeps
\* and have collected different intervals.
C14_Witness ==
    /\ Running(1) /\ Running(2)
    /\ calls[1].post # calls[2].post
    /\ calls[1].pc = "sweep" /\ calls[2].pc = "sweep"
    /\ calls[1].i > 1 /\ calls[2].i > 1
    /\ calls[1].w.intervals # <<>>
    /\ calls[2].w.intervals # <<>>
    /\ calls[1].w.intervals # calls[2].w.intervals

\* The events of the file are its elements after the Log element.
EventIndexes == 2..Len(file)
AllAnnounced == \A i \in EventIndexes : file[i].sessionId \in 1..file[1].lastSessionId
StrictlyIncreasing == \A i, j \in EventIndexes : i < j => file[i].post < file[j].post

\* The four categories of events whose timestamp is a marker.
FirstOfRun(i) == i = 2 \/ file[i - 1].sessionId # file[i].sessionId
AfterJoin(i) == i > 2 /\ file[i - 1].tag = "Join"
BeforeLeave(i) == i < Len(file) /\ file[i + 1].tag = "Leave"
LastOfRun(i) == i = Len(file) \/ file[i + 1].sessionId # file[i].sessionId
IsMarkerEvent(i) == FirstOfRun(i) \/ AfterJoin(i) \/ BeforeLeave(i) \/ LastOfRun(i)

\* The timestamps of the marker events of session k, in the order of the file.
MarkerEvents(k) ==
    SelectSeq([i \in 1..Len(file) |-> i],
              LAMBDA i : i \in EventIndexes /\ file[i].sessionId = k /\ IsMarkerEvent(i))
ExpectedMarkers(k) == [n \in 1..Len(MarkerEvents(k)) |-> file[MarkerEvents(k)[n]].post]

\* The file has been read to its end without an error.
FileIngested == pc = "files" /\ Len(file) > 0

\* C15: for a stream with strictly increasing timestamps and announced session
\* ids, the markers committed are exactly the timestamps of the first event of
\* a run of a session id, the event after a Join, the event before a Leave and
\* the last event of a run, each committed once to its own session.
C15_FourCategories ==
    (FileIngested /\ AllAnnounced /\ StrictlyIncreasing) =>
        \A k \in 1..Len(sessions[FileContact]) :
            sessions[FileContact][k] = ExpectedMarkers(k)

\* The file with every InvitationResponse element turned into a Message.
AsMessages(elems) ==
    [i \in 1..Len(elems) |->
        IF elems[i].tag = "InvitationResponse"
        THEN [elems[i] EXCEPT !.tag = "Message"]
        ELSE elems[i]]

\* C17: an InvitationResponse event is processed like any other session
\* event: replacing it by a Message event with the same session id and
\* timestamp never changes the set of markers stored for any session.
C17_ResponseAsMessage ==
    (FileIngested /\ AllAnnounced) =>
        LET replaced == ReadFile(Store(NoSessions, NoPosts), FileContact, AsMessages(file))
        IN  \A k \in 1..Len(sessions[FileContact]) :
                PostsOfSession(FileContact, k)
                    = {replaced.store.sessions[FileContact][k][n] :
                          n \in 1..Len(replaced.store.sessions[FileContact][k])}

\* -------------------------------------------------- the claims on the backfill
\* One round of the backfill is taken, for the contact contacts[idx].
RepairRound == pc = "repair" /\ idx <= Len(contacts) /\ idx' = idx + 1

RepairFinished == pc \in {"edges", "done"}

\* C16: after the backfill every contact's session 1 has a marker; a
\* placeholder is synthesized exactly for the contacts whose session 1 was
\* empty after ingestion, it is the only marker of that session, it is
\* strictly smaller than every real timestamp, and the placeholders of
\* different contacts are pairwise distinct.
C16_Backfill ==
    /\ [][RepairRound =>
            LET e == contacts[idx] IN
            /\ \A f \in Emails : \A k \in 1..Len(sessions[f]) :
                  (f # e \/ k # 1 \/ sessions[e][1] # <<>>) =>
                      sessions'[f][k] = sessions[f][k]
            /\ (Len(sessions[e]) > 0 /\ sessions[e][1] = <<>>) =>
                  /\ Len(sessions'[e][1]) = 1
                  /\ sessions'[e][1][1] \notin Timestamps
                  /\ \A t \in Timestamps : sessions'[e][1][1] < t
                  /\ sessions'[e][1][1] \notin DOMAIN posts
                  /\ posts'[sessions'[e][1][1]] = <<(<<e, 1>>)>>]_vars
    /\ [](RepairFinished =>
            /\ \A e \in ContactSet :
                  /\ Len(sessions[e]) >= 1
                  /\ Len(FirstSession(e)) >= 1
                  /\ HasPlaceholder(e) =>
                        /\ Len(FirstSession(e)) = 1
                        /\ \A t \in Timestamps : FirstSession(e)[1] < t
            /\ \A e, f \in ContactSet :
                  (e # f /\ HasPlaceholder(e) /\ HasPlaceholder(f)) =>
                      FirstSession(e)[1] # FirstSession(f)[1])

\* The backfill is done and gave placeholders to two contacts, one of which
\* has real markers in its session 2.
C16_Witness ==
    /\ RepairFinished
    /\ \E e, f \in ContactSet :
          /\ e # f
          /\ HasPlaceholder(e) /\ HasPlaceholder(f)
          /\ Len(sessions[e]) = 2 /\ sessions[e][2] # <<>>

\* ----------------------------------------------------- the claims on the anchor
\* C18: the Conversation reconstructed from an anchor t of the index contains
\* the anchor: every contact that recorded a marker at t is a participant, and
\* conversation.firstPost <= t <= conversation.lastPost.
C18_ContainsAnchor ==
    \A c \in CallIds : Returned(c) =>
        LET convo == calls[c].convo[1]
            t == calls[c].post
        IN  /\ \A e \in Emails : HasMarker(e, t) => IsParticipant(convo, e)
            /\ convo.firstPost <= t
            /\ t <= convo.lastPost

\* ------------------------------------------------------ the claims on the index
\* C19: the global index and the per-session marker lists agree: a session is
\* listed under t if and only if t is in its marker list, it is listed there
\* once, and no timestamp has an empty entry; so every lookup of a timestamp
\* taken from a marker list succeeds.
C19_IndexAgrees ==
    /\ \A t \in DOMAIN posts :
          /\ Len(posts[t]) > 0
          /\ \A n \in 1..Len(posts[t]) :
                /\ posts[t][n][1] \in Emails
                /\ posts[t][n][2] \in 1..Len(sessions[posts[t][n][1]])
                /\ t \in PostsOfSession(posts[t][n][1], posts[t][n][2])
                /\ \A o \in 1..Len(posts[t]) : posts[t][o] = posts[t][n] => o = n
    /\ \A e \in Emails : \A k \in 1..Len(sessions[e]) :
          \A t \in PostsOfSession(e, k) :
              /\ t \in DOMAIN posts
              /\ InSeq(<<e, k>>, posts[t])

\* The graph is printed from a store where a timestamp is indexed under two
\* sessions, a session holds two markers and the backfill added a placeholder.
C19_Witness ==
    /\ pc = "done"
    /\ \E t \in DOMAIN posts : Len(posts[t]) = 2
    /\ \E e \in ContactSet : HasPlaceholder(e)
    /\ \E e \in ContactSet : \E k \in 1..Len(sessions[e]) : Len(sessions[e][k]) = 2

\* ------------------------------------------------- the claims on the edge list
\* C20: every predecessor edge B -> A goes from a contact whose first marker
\* is strictly earlier to a contact whose first marker is strictly later, so
\* the predecessor edges have no self-loop and no cycle; and for every ordered
\* pair (source, destination) at most one edge is emitted.
C20_EdgesOrdered ==
    /\ \A i \in 1..Len(edges) :
          IsPredecessorEdge(edges[i]) =>
              /\ edges[i].src \in ContactSet
              /\ edges[i].dest \in ContactSet
              /\ FirstSession(edges[i].src)[1] < FirstSession(edges[i].dest)[1]
              /\ edges[i].src # edges[i].dest
              /\ \A j \in 1..Len(edges) :
                    ~(edges[j].src = edges[i].dest /\ edges[j].dest = edges[i].src)
    /\ \A i, j \in 1..Len(edges) :
          (edges[i].src = edges[j].src /\ edges[i].dest = edges[j].dest) => i = j

\* The graph is printed with two edges, one of them a predecessor edge B -> A
\* where A is also a participant of the conversation of B's first marker.
C20_Witness ==
    /\ pc = "done"
    /\ Len(edges) = 2
    /\ \E i \in 1..Len(edges) :
          /\ IsPredecessorEdge(edges[i])
          /\ IsParticipant(FirstConvo(edges[i].src), edges[i].dest)

====
